---- MODULE Spec2Model ----
(***************************************************************************)
(* Inventory transfer engine of altv-athena                                *)
(* (src/src/core/server/views/inventory.ts): the rule registry, the move / *)
(* drop / pickup orchestrator with its suspension points at the rule       *)
(* predicates, and the use / split operations; with the world clock and    *)
(* weather rotation (src/src/core/server/systems/world.ts) and the         *)
(* vehicle-ready poll of setIntoVehicle (src/unnamed/part_000).            *)
(***************************************************************************)
EXTENDS Integers, Sequences, FiniteSets, TLC

VARIABLES
    data,       \* data[a][name][slot]: player.data.inventory / toolbar / equipment
    GROUND_ITEMS,   \* the array of dropped items
    ITEM_RULES,     \* rule kind -> sequence of registered predicates
    reqs,       \* the suspended handler invocations (awaiting a rule predicate)
    weapons,    \* weapons[a]: the player holds weapons (player.removeAllWeapons clears)
    streamed,   \* uids appended to ServerItemController / ServerObjectController
    vcall,      \* a direct call of verifyRules: its rule, position and call log
    hour,       \* World.hour
    minute,     \* World.minute
    WEATHER_ROTATION,   \* DEFAULT_CONFIG.WEATHER_ROTATION
    USE_SERVER_TIME,    \* DEFAULT_CONFIG.USE_SERVER_TIME
    MINUTES_PER_MINUTE, \* DEFAULT_CONFIG.MINUTES_PER_MINUTE
    now,        \* the minute of the day of the server's clock (Date.now())
    attempts,   \* setIntoVehicle: the counter of its interval callback
    interval,   \* setIntoVehicle: "none", "set" or "cleared"
    resolved,   \* setIntoVehicle: the values its promise was resolved with
    vehicleValid,   \* vehicle.valid
    warped      \* native.setPedIntoVehicle was called

inventoryVars == <<data, GROUND_ITEMS, ITEM_RULES, reqs, weapons, streamed, vcall>>

worldVars == <<hour, minute, WEATHER_ROTATION, USE_SERVER_TIME, MINUTES_PER_MINUTE, now>>

vehicleVars == <<attempts, interval, resolved, vehicleValid, warped>>

vars == <<inventoryVars, worldVars, vehicleVars>>

---------------------------------------------------------------------------
(* Bounds of the model *)

NumActors == 2
InvSlots == 2
ToolSlots == 1
EquipSlots == 1
MaxGround == 2
MaxInFlight == 1
MaxQuantity == 3
MaxUid == 4
MaxTokens == 2
MaxItems == 3
MaxRulesDeep == 3

Actors == 1..NumActors

---------------------------------------------------------------------------
(* Container kinds and slot identifiers *)

DataHelpers ==
    << [abbrv |-> "i-", name |-> "inventory"],
       [abbrv |-> "t-", name |-> "toolbar"],
       [abbrv |-> "e-", name |-> "equipment"],
       [abbrv |-> "g-", name |-> "ground"] >>

NoData == [abbrv |-> "", name |-> "undefined"]

OwnedNames == {"inventory", "toolbar", "equipment"}

Capacity(name) ==
    CASE name = "inventory" -> InvSlots
      [] name = "toolbar" -> ToolSlots
      [] name = "equipment" -> EquipSlots
      [] OTHER -> 0

Slots(name) == 0..(Capacity(name) - 1)

\* A slot identifier string such as 'i-0' is the pair of its prefix and the
\* text after it; the string includes an abbreviation iff its prefix is it.
DigitTexts == <<"0", "1", "2", "3">>

NaN == -999

\* DataHelpers.find((dataInfo) => slot.includes(dataInfo.abbrv))
FindData(slotId) ==
    IF \E n \in 1..Len(DataHelpers) : DataHelpers[n].abbrv = slotId[1]
    THEN DataHelpers[CHOOSE n \in 1..Len(DataHelpers) :
                        /\ DataHelpers[n].abbrv = slotId[1]
                        /\ \A m \in 1..(n - 1) : DataHelpers[m].abbrv # slotId[1]]
    ELSE NoData

\* stripCategory(slot): the number after the prefix, NaN when it is not one
stripCategory(slotId) ==
    IF \E n \in 1..Len(DigitTexts) : DigitTexts[n] = slotId[2]
    THEN (CHOOSE n \in 1..Len(DigitTexts) : DigitTexts[n] = slotId[2]) - 1
    ELSE NaN

\* playerFuncs.inventory.getSlotType(slot)
getSlotType(slotId) == FindData(slotId).name

---------------------------------------------------------------------------
(* Items *)

NoHash == 0
NoEquip == -1
NoSex == -1

NoItem == [uid |-> 0, base |-> "none", quantity |-> 0, slot |-> -1, hash |-> NoHash]

Bases == {"food", "tonic", "gun", "shirt", "blouse", "bandage"}

\* item.behavior: the flags of ITEM_TYPE set on the item
Behavior(base) ==
    CASE base = "food" -> {"CAN_DROP", "CONSUMABLE", "CAN_STACK"}
      [] base = "tonic" -> {"CAN_DROP", "CONSUMABLE", "SKIP_CONSUMABLE", "DESTROY_ON_DROP"}
      [] base = "gun" -> {"CAN_DROP", "IS_TOOLBAR"}
      [] base = "shirt" -> {"CAN_DROP", "IS_EQUIPMENT"}
      [] base = "blouse" -> {"IS_EQUIPMENT"}
      [] base = "bandage" -> {"CAN_DROP", "CONSUMABLE", "IS_TOOLBAR"}
      [] OTHER -> {}

isFlagEnabled(item, flag) == flag \in Behavior(item.base)

\* item.equipment: the equipment slot of an equipment item
EquipmentOf(item) == IF item.base \in {"shirt", "blouse"} THEN 0 ELSE NoEquip

\* item.data.sex
SexOf(item) ==
    CASE item.base = "shirt" -> 0
      [] item.base = "blouse" -> 1
      [] OTHER -> NoSex

\* player.data.appearance.sex
ActorSex(a) == (a - 1) % 2

Item(uid, base, quantity, slot, hash) ==
    [uid |-> uid, base |-> base, quantity |-> quantity, slot |-> slot, hash |-> hash]

---------------------------------------------------------------------------
(* The container adapters of playerFuncs.inventory *)

ValidSlot(name, slot) == slot \in Slots(name)

getItem(d, a, name, slot) ==
    IF ValidSlot(name, slot) THEN d[a][name][slot] ELSE NoItem

emptyCheck(d, a, name, slot) ==
    ValidSlot(name, slot) /\ d[a][name][slot] = NoItem

\* removeItem(player, slot): true iff an item was present and removed
CanRemove(d, a, name, slot) == ValidSlot(name, slot) /\ d[a][name][slot] # NoItem

RemoveFrom(d, a, name, slot) == [d EXCEPT ![a][name][slot] = NoItem]

\* addItem(player, item, slot): false iff the slot is occupied or out of range
CanAdd(d, a, name, slot) == ValidSlot(name, slot) /\ d[a][name][slot] = NoItem

AddTo(d, a, name, item, slot) ==
    [d EXCEPT ![a][name][slot] = [item EXCEPT !.slot = slot]]

\* playerFuncs.inventory.getFreeInventorySlot(player): the first free slot
HasFreeInventorySlot(d, a) == \E s \in Slots("inventory") : d[a]["inventory"][s] = NoItem

getFreeInventorySlot(d, a) ==
    CHOOSE s \in Slots("inventory") :
        /\ d[a]["inventory"][s] = NoItem
        /\ \A t \in Slots("inventory") : t < s => d[a]["inventory"][t] # NoItem

\* playerFuncs.inventory.allItemRulesValid(item, endData, endSlotIndex)
allItemRulesValid(item, endName, endSlotIndex) ==
    CASE endName = "equipment" ->
            isFlagEnabled(item, "IS_EQUIPMENT") /\ EquipmentOf(item) = endSlotIndex
      [] endName = "toolbar" -> isFlagEnabled(item, "IS_TOOLBAR")
      [] endName = "ground" -> isFlagEnabled(item, "CAN_DROP")
      [] OTHER -> TRUE

---------------------------------------------------------------------------
(* The rule registry *)

RuleKinds ==
    { "FROM_EQUIPMENT_TO_INVENTORY", "FROM_EQUIPMENT_TO_TOOLBAR",
      "FROM_INVENTORY_TO_EQUIPMENT", "FROM_INVENTORY_TO_GROUND",
      "FROM_INVENTORY_TO_TOOLBAR", "FROM_TOOLBAR_TO_EQUIPMENT",
      "FROM_TOOLBAR_TO_INVENTORY", "FROM_EQUIPMENT_TO_GROUND",
      "FROM_TOOLBAR_TO_GROUND", "FROM_GROUND_TO_INVENTORY",
      "FROM_GROUND_TO_EQUIPMENT", "FROM_GROUND_TO_TOOLBAR" }

NoRule == "undefined"

\* The callbacks a collaborator may register.  What a callback answers is
\* its own business (it may ask another service): an input of the step that
\* resumes the invocation awaiting it.
Preds == {"p", "q"}

\* addRule: the value it returns
addRuleReturns(rules, rule) == rule \in DOMAIN rules

\* A registration that puts the callback in front of the list
addRuleAtFront(rules, rule, callback) ==
    IF rule \notin DOMAIN rules
    THEN rules
    ELSE [rules EXCEPT ![rule] = <<callback>> \o @]

\* addRule: the registry it leaves
addRule(rules, rule, callback) ==
    IF rule \notin DOMAIN rules
    THEN rules
    ELSE [rules EXCEPT ![rule] = Append(@, callback)]

\* verifyRules up to its first await: TRUE when it returns true at once
\* (line 99), FALSE when it calls the predicate at index 0 and awaits it.
verifyRulesReturnsAtOnce(rules, rule) == Len(rules[rule]) <= 0

\* A loop that goes on to the next predicate after a falsy answer
verifyRulesAfterGoingOn(rules, rule, i, didPass) ==
    IF i + 1 < Len(rules[rule]) THEN "call"
    ELSE IF didPass THEN "true"
    ELSE "false"

\* verifyRules once the awaited predicate at index i (from 0) has answered
\* didPass: "false" (line 109), "true" (line 112), or "call" of index i + 1.
verifyRulesAfter(rules, rule, i, didPass) ==
    IF ~didPass THEN "false"
    ELSE IF i + 1 < Len(rules[rule]) THEN "call"
    ELSE "true"

getInventoryRule(selectData, endData) ==
    CASE selectData.abbrv = "i-" /\ endData.abbrv = "t-" ->
            [selected |-> "FROM_INVENTORY_TO_TOOLBAR", end |-> "FROM_TOOLBAR_TO_INVENTORY"]
      [] selectData.abbrv = "i-" /\ endData.abbrv = "e-" ->
            [selected |-> "FROM_INVENTORY_TO_EQUIPMENT", end |-> "FROM_EQUIPMENT_TO_INVENTORY"]
      [] selectData.abbrv = "e-" /\ endData.abbrv = "i-" ->
            [selected |-> "FROM_EQUIPMENT_TO_INVENTORY", end |-> "FROM_INVENTORY_TO_EQUIPMENT"]
      [] selectData.abbrv = "e-" /\ endData.abbrv = "t-" ->
            [selected |-> "FROM_EQUIPMENT_TO_TOOLBAR", end |-> "FROM_TOOLBAR_TO_EQUIPMENT"]
      [] selectData.abbrv = "t-" /\ endData.abbrv = "i-" ->
            [selected |-> "FROM_TOOLBAR_TO_INVENTORY", end |-> "FROM_INVENTORY_TO_TOOLBAR"]
      [] selectData.abbrv = "t-" /\ endData.abbrv = "e-" ->
            [selected |-> "FROM_TOOLBAR_TO_EQUIPMENT", end |-> "FROM_EQUIPMENT_TO_TOOLBAR"]
      [] OTHER -> [selected |-> NoRule, end |-> NoRule]

---------------------------------------------------------------------------
(* Handler results.  A handler maps the shared state and its inputs to the  *)
(* state it leaves, the branch it ended on, whether it resynchronized the  *)
(* player, and, when it stopped at an await, the invocation left suspended. *)

NoDropped == [gridSpace |-> -1, item |-> NoItem, position |-> -1, dimension |-> -1]

NoReq == [pc |-> "idle", a |-> 0, sel |-> <<"", "">>, end |-> <<"", "">>,
          item |-> NoItem, rule |-> NoRule, i |-> 0, hash |-> NoHash,
          index |-> 0, dropped |-> NoDropped]

Cur == [data |-> data, ground |-> GROUND_ITEMS, weapons |-> weapons, streamed |-> streamed]

Ended(st, out, sync) == [st |-> st, out |-> out, sync |-> sync, susp |-> NoReq]

Suspended(st, req) == [st |-> st, out |-> "await", sync |-> FALSE, susp |-> req]

ContainerItems(d) ==
    UNION { { d[a][n][s] : s \in Slots(n) } : a \in Actors, n \in OwnedNames } \ {NoItem}

GroundItemRecords(g) == { g[k].item : k \in 1..Len(g) }

\* The item records the suspended invocations carry as clones.
CloneItems == ({ reqs[r].item : r \in DOMAIN reqs }
               \cup { reqs[r].dropped.item : r \in DOMAIN reqs }) \ {NoItem}

\* The tokens that identify a ground entry somewhere: on the ground, in the
\* streamed list, or held by a suspended pickup
UsedHashes(st) ==
    { it.hash : it \in GroundItemRecords(st.ground) }
        \cup { reqs[r].hash : r \in DOMAIN reqs } \cup st.streamed

\* sha256Random(JSON.stringify(itemClone)): a token not in use (MaxTokens + 1
\* when the model's tokens are used up)
sha256Random(st, item) ==
    IF \E h \in 1..MaxTokens : h \notin UsedHashes(st)
    THEN CHOOSE h \in 1..MaxTokens :
            /\ h \notin UsedHashes(st)
            /\ \A k \in 1..(h - 1) : k \in UsedHashes(st)
    ELSE MaxTokens + 1

UsedUids(st) ==
    { it.uid : it \in ContainerItems(st.data) \cup GroundItemRecords(st.ground) \cup CloneItems }

\* The identity of the new stack a split creates (deepCloneObject makes a
\* new object); MaxUid + 1 when the model's identities are used up.
NewUid(st) ==
    IF \E u \in 1..MaxUid : u \notin UsedUids(st)
    THEN CHOOSE u \in 1..MaxUid :
            u \notin UsedUids(st) /\ \A k \in 1..(u - 1) : k \in UsedUids(st)
    ELSE MaxUid + 1

\* player.gridSpace and player.dimension
GridSpaceOf(a) == a % 2

DimensionOf(a) == 0

\* distance2d over the one coordinate the model keeps
distance2d(p, q) == IF p >= q THEN p - q ELSE q - p

PickupRadius == 10

---------------------------------------------------------------------------
(* handleSwapOrStack (playerFuncs.inventory): stack two items of the same   *)
(* stackable type when the sum fits, otherwise exchange the occupants; it   *)
(* saves and synchronizes itself.                                          *)

handleSwapOrStack(st, a, selectedSlot, endSlot) ==
    LET sName == FindData(selectedSlot).name
        eName == FindData(endSlot).name
        sIdx == stripCategory(selectedSlot)
        eIdx == stripCategory(endSlot)
        sItem == getItem(st.data, a, sName, sIdx)
        eItem == getItem(st.data, a, eName, eIdx)
    IN  IF sItem = NoItem \/ eItem = NoItem
        THEN Ended(st, "swapMissing", TRUE)
        ELSE IF /\ sItem.base = eItem.base
                /\ isFlagEnabled(sItem, "CAN_STACK")
                /\ sItem.quantity + eItem.quantity <= MaxQuantity
        THEN Ended([st EXCEPT !.data[a] =
                        [[@ EXCEPT ![sName][sIdx] = NoItem]
                            EXCEPT ![eName][eIdx].quantity = @ + sItem.quantity]],
                   "stacked", TRUE)
        ELSE Ended([st EXCEPT !.data[a] =
                        [[@ EXCEPT ![sName][sIdx] = [eItem EXCEPT !.slot = sIdx]]
                            EXCEPT ![eName][eIdx] = [sItem EXCEPT !.slot = eIdx]]],
                   "swapped", TRUE)

---------------------------------------------------------------------------
(* processItemMovement, lines 255-313: after the rules of the selected item *)

Awaiting(pc, a, selectedSlot, endSlot, item, rule) ==
    [NoReq EXCEPT !.pc = pc, !.a = a, !.sel = selectedSlot, !.end = endSlot,
                  !.item = item, !.rule = rule]

\* lines 281-313: the end slot is free
moveCommit(st, a, selectedSlot, endSlot, itemClone) ==
    LET selectData == FindData(selectedSlot)
        endData == FindData(endSlot)
        endSlotIndex == stripCategory(endSlot)
    IN  IF ~allItemRulesValid(itemClone, endData.name, endSlotIndex)
        THEN Ended(st, "invalidPlacement", TRUE)
        ELSE IF isFlagEnabled(itemClone, "IS_EQUIPMENT") /\ SexOf(itemClone) # ActorSex(a)
        THEN Ended(st, "sexMismatch", TRUE)
        ELSE IF ~CanRemove(st.data, a, selectData.name, itemClone.slot)
        THEN Ended(st, "removeFailed", TRUE)
        ELSE LET d1 == RemoveFrom(st.data, a, selectData.name, itemClone.slot)
             IN  IF ~CanAdd(d1, a, endData.name, endSlotIndex)
                 THEN Ended([st EXCEPT !.data = d1], "addFailed", TRUE)
                 ELSE Ended([st EXCEPT !.data =
                                AddTo(d1, a, endData.name, itemClone, endSlotIndex)],
                            "moved", TRUE)

\* lines 255-279 and on
moveAfterSelected(st, a, selectedSlot, endSlot, itemClone) ==
    LET selectData == FindData(selectedSlot)
        endData == FindData(endSlot)
        endSlotIndex == stripCategory(endSlot)
    IN  IF ~emptyCheck(st.data, a, endData.name, endSlotIndex)
        THEN IF selectData.abbrv # endData.abbrv
             THEN LET endItemClone == getItem(st.data, a, endData.name, endSlotIndex)
                      rules == getInventoryRule(selectData, endData)
                  IN  IF verifyRulesReturnsAtOnce(ITEM_RULES, rules.selected)
                      THEN handleSwapOrStack(st, a, selectedSlot, endSlot)
                      ELSE Suspended(st, Awaiting("moveEnd", a, selectedSlot, endSlot,
                                                  endItemClone, rules.selected))
             ELSE handleSwapOrStack(st, a, selectedSlot, endSlot)
        ELSE moveCommit(st, a, selectedSlot, endSlot, itemClone)

---------------------------------------------------------------------------
(* handleDropGround *)

\* A drop that leaves on the item the token it had
dropCommitKeepingHash(st, a, selectedSlot, itemClone, pos) ==
    LET selectData == FindData(selectedSlot)
    IN  IF ~CanRemove(st.data, a, selectData.name, itemClone.slot)
        THEN Ended(st, "removeFailed", TRUE)
        ELSE LET d1 == RemoveFrom(st.data, a, selectData.name, itemClone.slot)
                 droppedItem == [gridSpace |-> GridSpaceOf(a),
                                 item |-> itemClone,
                                 position |-> pos,
                                 dimension |-> DimensionOf(a)]
             IN  IF isFlagEnabled(itemClone, "DESTROY_ON_DROP")
                 THEN Ended([st EXCEPT !.data = d1], "destroyed", TRUE)
                 ELSE Ended([st EXCEPT !.data = d1,
                                       !.ground = Append(@, droppedItem),
                                       !.streamed = @ \cup {itemClone.hash}],
                            "dropped", TRUE)

\* A drop that lays the item on the ground whatever its flags
dropCommitKeepingDestroyed(st, a, selectedSlot, itemClone, pos) ==
    LET selectData == FindData(selectedSlot)
    IN  IF ~CanRemove(st.data, a, selectData.name, itemClone.slot)
        THEN Ended(st, "removeFailed", TRUE)
        ELSE LET d1 == RemoveFrom(st.data, a, selectData.name, itemClone.slot)
                 hash == sha256Random(st, itemClone)
                 droppedItem == [gridSpace |-> GridSpaceOf(a),
                                 item |-> [itemClone EXCEPT !.hash = hash],
                                 position |-> pos,
                                 dimension |-> DimensionOf(a)]
             IN  Ended([st EXCEPT !.data = d1,
                                  !.ground = Append(@, droppedItem),
                                  !.streamed = @ \cup {hash}],
                       IF isFlagEnabled(itemClone, "DESTROY_ON_DROP")
                       THEN "destroyed" ELSE "dropped", TRUE)

\* lines 370-420: after the rules; pos is player.pos when it resumes
dropCommit(st, a, selectedSlot, itemClone, pos) ==
    LET selectData == FindData(selectedSlot)
    IN  IF ~CanRemove(st.data, a, selectData.name, itemClone.slot)
        THEN Ended(st, "removeFailed", TRUE)
        ELSE LET d1 == RemoveFrom(st.data, a, selectData.name, itemClone.slot)
                 hash == sha256Random(st, itemClone)
                 droppedItem == [gridSpace |-> GridSpaceOf(a),
                                 item |-> [itemClone EXCEPT !.hash = hash],
                                 position |-> pos,
                                 dimension |-> DimensionOf(a)]
             IN  IF isFlagEnabled(itemClone, "DESTROY_ON_DROP")
                 THEN Ended([st EXCEPT !.data = d1], "destroyed", TRUE)
                 ELSE Ended([st EXCEPT !.data = d1,
                                       !.ground = Append(@, droppedItem),
                                       !.streamed = @ \cup {hash}],
                            "dropped", TRUE)

dropRule(selectData) ==
    CASE selectData.abbrv = "i-" -> "FROM_INVENTORY_TO_GROUND"
      [] selectData.abbrv = "e-" -> "FROM_EQUIPMENT_TO_GROUND"
      [] selectData.abbrv = "t-" -> "FROM_TOOLBAR_TO_GROUND"
      [] OTHER -> NoRule

\* lines 321-368
handleDropGround(st, a, selectedSlot, inVehicle, pos) ==
    LET selectSlotIndex == stripCategory(selectedSlot)
        selectData == FindData(selectedSlot)
        itemClone == getItem(st.data, a, selectData.name, selectSlotIndex)
        dataType == dropRule(selectData)
    IN  IF selectData.name = "ground" THEN Ended(st, "groundToGround", TRUE)
        ELSE IF inVehicle THEN Ended(st, "inVehicle", TRUE)
        ELSE IF itemClone = NoItem THEN Ended(st, "noItem", TRUE)
        ELSE IF ~isFlagEnabled(itemClone, "CAN_DROP") THEN Ended(st, "cannotDrop", TRUE)
        ELSE IF ~allItemRulesValid(itemClone, "ground", NaN)
        THEN Ended(st, "invalidPlacement", TRUE)
        ELSE IF dataType # NoRule /\ ~verifyRulesReturnsAtOnce(ITEM_RULES, dataType)
        THEN Suspended(st, Awaiting("drop", a, selectedSlot, <<"g-", "">>, itemClone, dataType))
        ELSE dropCommit(st, a, selectedSlot, itemClone, pos)

---------------------------------------------------------------------------
(* handlePickupGround *)

\* GROUND_ITEMS.findIndex((gItem) => gItem.item.hash === hash), from 1; 0: none
findIndex(ground, hash) ==
    IF \E k \in 1..Len(ground) : ground[k].item.hash = hash
    THEN CHOOSE k \in 1..Len(ground) :
            /\ ground[k].item.hash = hash
            /\ \A j \in 1..(k - 1) : ground[j].item.hash # hash
    ELSE 0

\* A removal that takes the first entry whatever the index
spliceHead(ground, index) ==
    IF index \in 1..Len(ground) THEN Tail(ground) ELSE ground

\* GROUND_ITEMS.splice(index, 1): the array it leaves
splice(ground, index) ==
    IF index \in 1..Len(ground)
    THEN SubSeq(ground, 1, index - 1) \o SubSeq(ground, index + 1, Len(ground))
    ELSE ground

\* GROUND_ITEMS.splice(index, 1): how many entries it removed
spliceRemoved(ground, index) == IF index \in 1..Len(ground) THEN 1 ELSE 0

\* A pickup whose insert takes the slot whatever it holds
pickupCommitOverwriting(st, a, endSlot, hash, index, droppedItem) ==
    LET endData == FindData(endSlot)
        endSlotIndex == stripCategory(endSlot)
    IN  IF spliceRemoved(st.ground, index) <= 0
        THEN Ended(st, "nothingRemoved", TRUE)
        ELSE Ended([st EXCEPT !.ground = splice(@, index),
                              !.data = AddTo(@, a, endData.name,
                                             droppedItem.item, endSlotIndex),
                              !.streamed = @ \ {hash}],
                   "pickedUp", TRUE)

\* lines 498-527: after the rules
pickupCommit(st, a, endSlot, hash, index, droppedItem) ==
    LET endData == FindData(endSlot)
        endSlotIndex == stripCategory(endSlot)
        isEquipmentItem == isFlagEnabled(droppedItem.item, "IS_EQUIPMENT")
        isGoingToEquipment == endData.name = "equipment"
    IN  IF isEquipmentItem /\ isGoingToEquipment /\ SexOf(droppedItem.item) # ActorSex(a)
        THEN Ended(st, "sexMismatch", TRUE)
        ELSE IF spliceRemoved(st.ground, index) <= 0
        THEN Ended(st, "nothingRemoved", TRUE)
        ELSE LET g1 == splice(st.ground, index)
             IN  IF ~CanAdd(st.data, a, endData.name, endSlotIndex)
                 THEN Ended([st EXCEPT !.ground = g1], "addFailed", TRUE)
                 ELSE Ended([st EXCEPT !.ground = g1,
                                       !.data = AddTo(@, a, endData.name,
                                                      droppedItem.item, endSlotIndex),
                                       !.streamed = @ \ {hash}],
                            "pickedUp", TRUE)

\* A pickup that does not look at the distance
handlePickupGroundAnywhere(st, a, endSlot, hash, inVehicle, pos) ==
    LET endData == FindData(endSlot)
        endSlotIndex == stripCategory(endSlot)
        index == findIndex(st.ground, hash)
        droppedItem == st.ground[index]
    IN  IF inVehicle THEN Ended(st, "inVehicle", TRUE)
        ELSE IF ~emptyCheck(st.data, a, endData.name, endSlotIndex)
        THEN Ended(st, "slotTaken", TRUE)
        ELSE IF hash = NoHash THEN Ended(st, "noHash", TRUE)
        ELSE IF index = 0 THEN Ended(st, "notTracked", TRUE)
        ELSE IF ~allItemRulesValid(droppedItem.item, endData.name, endSlotIndex)
        THEN Ended(st, "invalidPlacement", TRUE)
        ELSE pickupCommit(st, a, endSlot, hash, index, droppedItem)

pickupRule(endData) ==
    CASE endData.abbrv = "i-" -> "FROM_GROUND_TO_INVENTORY"
      [] endData.abbrv = "g-" -> "FROM_GROUND_TO_EQUIPMENT"
      [] endData.abbrv = "t-" -> "FROM_GROUND_TO_TOOLBAR"
      [] OTHER -> NoRule

\* lines 442-496
handlePickupGround(st, a, endSlot, hash, inVehicle, pos) ==
    LET endData == FindData(endSlot)
        endSlotIndex == stripCategory(endSlot)
        index == findIndex(st.ground, hash)
        droppedItem == st.ground[index]
        dataType == pickupRule(endData)
    IN  IF inVehicle THEN Ended(st, "inVehicle", TRUE)
        ELSE IF ~emptyCheck(st.data, a, endData.name, endSlotIndex)
        THEN Ended(st, "slotTaken", TRUE)
        ELSE IF hash = NoHash THEN Ended(st, "noHash", TRUE)
        ELSE IF index = 0 THEN Ended(st, "notTracked", TRUE)
        ELSE IF distance2d(pos, droppedItem.position) >= PickupRadius
        THEN Ended(st, "tooFar", TRUE)
        ELSE IF ~allItemRulesValid(droppedItem.item, endData.name, endSlotIndex)
        THEN Ended(st, "invalidPlacement", TRUE)
        ELSE IF dataType # NoRule /\ ~verifyRulesReturnsAtOnce(ITEM_RULES, dataType)
        THEN Suspended(st, [Awaiting("pickup", a, <<"g-", "">>, endSlot,
                                     droppedItem.item, dataType)
                                EXCEPT !.hash = hash, !.index = index,
                                       !.dropped = droppedItem])
        ELSE pickupCommit(st, a, endSlot, hash, index, droppedItem)

\* lines 426-440
handleProcessPickup(st, a, hash, inVehicle, pos) ==
    IF ~HasFreeInventorySlot(st.data, a)
    THEN Ended(st, "noFreeSlot", TRUE)
    ELSE handlePickupGround(st, a, <<"i-", DigitTexts[getFreeInventorySlot(st.data, a) + 1]>>,
                            hash, inVehicle, pos)

---------------------------------------------------------------------------
(* processItemMovement, lines 185-253 *)

\* A move that does not compare the two identifiers
processItemMovementOfSameSlot(st, a, valid, selectedSlot, endSlot, hash, inVehicle, pos) ==
    LET endData == FindData(endSlot)
        selectData == FindData(selectedSlot)
        selectSlotIndex == stripCategory(selectedSlot)
        itemClone == getItem(st.data, a, selectData.name, selectSlotIndex)
        st1 == IF selectData.name = "toolbar" /\ endData.name # "toolbar"
               THEN [st EXCEPT !.weapons[a] = FALSE]
               ELSE st
        rules == getInventoryRule(selectData, endData)
    IN  IF ~valid THEN Ended(st, "invalidPlayer", FALSE)
        ELSE IF selectData = NoData \/ endData = NoData THEN Ended(st, "threw", FALSE)
        ELSE IF endData.name = "ground"
        THEN handleDropGround(st1, a, selectedSlot, inVehicle, pos)
        ELSE IF selectData.name = "ground"
        THEN handlePickupGround(st1, a, endSlot, hash, inVehicle, pos)
        ELSE IF itemClone = NoItem THEN Ended(st1, "noItem", TRUE)
        ELSE IF selectData.abbrv # endData.abbrv
                /\ ~verifyRulesReturnsAtOnce(ITEM_RULES, rules.selected)
        THEN Suspended(st1, Awaiting("moveSel", a, selectedSlot, endSlot,
                                     itemClone, rules.selected))
        ELSE moveAfterSelected(st1, a, selectedSlot, endSlot, itemClone)

processItemMovement(st, a, valid, selectedSlot, endSlot, hash, inVehicle, pos) ==
    LET endData == FindData(endSlot)
        selectData == FindData(selectedSlot)
        selectSlotIndex == stripCategory(selectedSlot)
        itemClone == getItem(st.data, a, selectData.name, selectSlotIndex)
        st1 == IF selectData.name = "toolbar" /\ endData.name # "toolbar"
               THEN [st EXCEPT !.weapons[a] = FALSE]
               ELSE st
        rules == getInventoryRule(selectData, endData)
    IN  IF ~valid THEN Ended(st, "invalidPlayer", FALSE)
        ELSE IF selectedSlot = endSlot THEN Ended(st, "sameSlot", TRUE)
        ELSE IF selectData = NoData \/ endData = NoData THEN Ended(st, "threw", FALSE)
        ELSE IF endData.name = "ground"
        THEN handleDropGround(st1, a, selectedSlot, inVehicle, pos)
        ELSE IF selectData.name = "ground"
        THEN handlePickupGround(st1, a, endSlot, hash, inVehicle, pos)
        ELSE IF itemClone = NoItem THEN Ended(st1, "noItem", TRUE)
        ELSE IF selectData.abbrv # endData.abbrv
                /\ ~verifyRulesReturnsAtOnce(ITEM_RULES, rules.selected)
        THEN Suspended(st1, Awaiting("moveSel", a, selectedSlot, endSlot,
                                     itemClone, rules.selected))
        ELSE moveAfterSelected(st1, a, selectedSlot, endSlot, itemClone)

---------------------------------------------------------------------------
(* processUse, lines 537-632 *)

EmptySlotId == <<"", "">>

\* playerFuncs.inventory.replaceInventoryItem(player, item)
replaceInventoryItem(d, a, item) ==
    IF CanRemove(d, a, "inventory", item.slot)
    THEN [d EXCEPT ![a]["inventory"][item.slot] = item]
    ELSE d

\* lines 564-577: unequip
useUnequip(st, a, item) ==
    IF ~HasFreeInventorySlot(st.data, a) THEN Ended(st, "noFreeSlot", TRUE)
    ELSE IF ~CanRemove(st.data, a, "equipment", EquipmentOf(item))
    THEN Ended(st, "removeFailed", TRUE)
    ELSE LET openSlot == getFreeInventorySlot(st.data, a)
             d1 == RemoveFrom(st.data, a, "equipment", EquipmentOf(item))
         IN  Ended([st EXCEPT !.data = AddTo(d1, a, "inventory", item, openSlot)],
                   "unequipped", TRUE)

\* An equip that does not hand the displaced item back
useEquipDiscarding(st, a, item) ==
    IF ~CanRemove(st.data, a, "inventory", item.slot)
    THEN Ended(st, "removeFailed", TRUE)
    ELSE LET d1 == RemoveFrom(st.data, a, "inventory", item.slot)
             d3 == RemoveFrom(d1, a, "equipment", EquipmentOf(item))
         IN  Ended([st EXCEPT !.data =
                        AddTo(d3, a, "equipment", item, EquipmentOf(item))],
                   "equipped", TRUE)

\* lines 578-602: equip
useEquip(st, a, item) ==
    IF ~CanRemove(st.data, a, "inventory", item.slot)
    THEN Ended(st, "removeFailed", TRUE)
    ELSE LET d1 == RemoveFrom(st.data, a, "inventory", item.slot)
             taken == { s \in Slots("equipment") :
                          /\ d1[a]["equipment"][s] # NoItem
                          /\ EquipmentOf(d1[a]["equipment"][s]) = EquipmentOf(item) }
             targetSlotIndex == CHOOSE s \in taken : \A t \in taken : s <= t
             removedItem == d1[a]["equipment"][targetSlotIndex]
             d2 == AddTo(RemoveFrom(d1, a, "equipment", EquipmentOf(item)),
                         a, "inventory", removedItem, item.slot)
             d3 == IF taken # {} THEN d2 ELSE d1
         IN  IF taken # {} /\ ~CanRemove(d1, a, "equipment", EquipmentOf(item))
             THEN Ended([st EXCEPT !.data = d1], "displaceFailed", TRUE)
             ELSE IF CanAdd(d3, a, "equipment", EquipmentOf(item))
             THEN Ended([st EXCEPT !.data =
                            AddTo(d3, a, "equipment", item, EquipmentOf(item))],
                        "equipped", TRUE)
             ELSE Ended([st EXCEPT !.data = d3], "equipped", TRUE)

\* A use that writes the emptied stack back instead of removing it
useConsumeToZero(st, a, item, slot) ==
    IF ~isFlagEnabled(item, "CONSUMABLE") THEN Ended(st, "notConsumable", TRUE)
    ELSE IF isFlagEnabled(item, "SKIP_CONSUMABLE") THEN Ended(st, "skipped", FALSE)
    ELSE Ended([st EXCEPT !.data =
                    replaceInventoryItem(@, a, [item EXCEPT !.quantity = @ - 1])],
               "consumed", TRUE)

\* lines 610-632: a consumable
useConsume(st, a, item, slot) ==
    IF ~isFlagEnabled(item, "CONSUMABLE") THEN Ended(st, "notConsumable", TRUE)
    ELSE IF isFlagEnabled(item, "SKIP_CONSUMABLE") THEN Ended(st, "skipped", FALSE)
    ELSE IF item.quantity - 1 <= 0
    THEN Ended([st EXCEPT !.data =
                    IF CanRemove(@, a, "inventory", slot)
                    THEN RemoveFrom(@, a, "inventory", slot) ELSE @],
               "consumed", TRUE)
    ELSE Ended([st EXCEPT !.data =
                    replaceInventoryItem(@, a, [item EXCEPT !.quantity = @ - 1])],
               "consumed", TRUE)

processUse(st, a, selectedSlot) ==
    LET slot == stripCategory(selectedSlot)
        slotType == getSlotType(selectedSlot)
        item == getItem(st.data, a, slotType, slot)
    IN  IF selectedSlot = EmptySlotId THEN Ended(st, "noSlot", TRUE)
        ELSE IF slot = NaN THEN Ended(st, "notANumber", TRUE)
        ELSE IF slotType \notin OwnedNames THEN Ended(st, "threw", FALSE)
        ELSE IF item = NoItem THEN Ended(st, "noItem", TRUE)
        ELSE IF EquipmentOf(item) # NoEquip
        THEN IF selectedSlot[1] = "t-" THEN Ended(st, "equipmentInToolbar", TRUE)
             ELSE IF selectedSlot[1] = "e-" THEN useUnequip(st, a, item)
             ELSE useEquip(st, a, item)
        ELSE useConsume(st, a, item, slot)

---------------------------------------------------------------------------
(* processSplit, lines 634-681 *)

\* A split that accepts the whole quantity of the stack
processSplitOfAll(st, a, selectedSlot, amount) ==
    LET currentSlotValue == stripCategory(selectedSlot)
        original == getItem(st.data, a, "inventory", currentSlotValue)
        clonedItem == [original EXCEPT !.quantity = amount, !.uid = NewUid(st)]
    IN  IF amount = NaN THEN Ended(st, "notANumber", TRUE)
        ELSE IF amount <= 0 THEN Ended(st, "notPositive", TRUE)
        ELSE IF selectedSlot[1] # "i-" THEN Ended(st, "notInventory", TRUE)
        ELSE IF original = NoItem THEN Ended(st, "noItem", TRUE)
        ELSE IF ~HasFreeInventorySlot(st.data, a) THEN Ended(st, "noFreeSlot", TRUE)
        ELSE IF original.quantity < amount THEN Ended(st, "tooMany", TRUE)
        ELSE Ended([st EXCEPT !.data =
                        AddTo([@ EXCEPT ![a]["inventory"][currentSlotValue].quantity
                                            = @ - amount],
                              a, "inventory", clonedItem,
                              getFreeInventorySlot(st.data, a))],
                   "split", TRUE)

processSplit(st, a, selectedSlot, amount) ==
    LET currentSlotValue == stripCategory(selectedSlot)
        original == getItem(st.data, a, "inventory", currentSlotValue)
        clonedItem == [original EXCEPT !.quantity = amount, !.uid = NewUid(st)]
    IN  IF amount = NaN THEN Ended(st, "notANumber", TRUE)
        ELSE IF amount <= 0 THEN Ended(st, "notPositive", TRUE)
        ELSE IF selectedSlot[1] # "i-" THEN Ended(st, "notInventory", TRUE)
        ELSE IF original = NoItem THEN Ended(st, "noItem", TRUE)
        ELSE IF ~HasFreeInventorySlot(st.data, a) THEN Ended(st, "noFreeSlot", TRUE)
        ELSE IF original.quantity < amount THEN Ended(st, "tooMany", TRUE)
        ELSE IF amount >= original.quantity THEN Ended(st, "notLess", TRUE)
        ELSE Ended([st EXCEPT !.data =
                        AddTo([@ EXCEPT ![a]["inventory"][currentSlotValue].quantity
                                            = @ - amount],
                              a, "inventory", clonedItem,
                              getFreeInventorySlot(st.data, a))],
                   "split", TRUE)

---------------------------------------------------------------------------
(* A suspended invocation resumes: the awaited predicate has answered.      *)

awaitedPredicate(rq) == ITEM_RULES[rq.rule][rq.i + 1]

\* The handler from the line after its await
afterVerify(st, rq, pos) ==
    CASE rq.pc = "moveSel" -> moveAfterSelected(st, rq.a, rq.sel, rq.end, rq.item)
      [] rq.pc = "moveEnd" -> handleSwapOrStack(st, rq.a, rq.sel, rq.end)
      [] rq.pc = "drop" -> dropCommit(st, rq.a, rq.sel, rq.item, pos)
      [] rq.pc = "pickup" -> pickupCommit(st, rq.a, rq.end, rq.hash, rq.index, rq.dropped)

\* didPass is the awaited predicate's answer.
resume(st, rq, didPass, pos) ==
    LET v == verifyRulesAfter(ITEM_RULES, rq.rule, rq.i, didPass)
    IN  CASE v = "call" -> Suspended(st, [rq EXCEPT !.i = @ + 1])
          [] v = "false" -> Ended(st, "ruleRejected", TRUE)
          [] OTHER -> afterVerify(st, rq, pos)

---------------------------------------------------------------------------
(* Inputs *)

\* player.pos when a pickup is requested, and when an item is dropped
Positions == {0, 10, 11}

DropPositions == {0}

\* An unknown prefix, a text that is no number, an index past the last slot
MalformedIds == { <<"x-", "0">>, <<"i-", "x">>, <<"i-", DigitTexts[InvSlots + 1]>> }

OwnedIds ==
    UNION { {DataHelpers[n].abbrv} \X {DigitTexts[k + 1] : k \in Slots(DataHelpers[n].name)} :
            n \in 1..3 }

GroundId == <<"g-", "0">>

SlotIds == OwnedIds \cup {GroundId} \cup MalformedIds

\* The tokens a client may send: none, one of a dropped item, one not tracked
UntrackedHash == MaxTokens + 1

Amounts == {NaN} \cup (0..(MaxQuantity + 1))

RuleInputs == RuleKinds \cup {"FROM_GROUND_TO_GROUND"}

IsGround(slotId) == slotId[1] = "g-"

---------------------------------------------------------------------------
(* Initial state *)

EmptyData ==
    [a \in Actors |-> [n \in OwnedNames |-> [s \in Slots(n) |-> NoItem]]]

\* The inventories the players start the model with
Layouts ==
    { [EmptyData EXCEPT
          ![1]["inventory"][0] = Item(1, "food", MaxQuantity, 0, NoHash),
          ![1]["toolbar"][0] = Item(2, "gun", 1, 0, NoHash)],
      [EmptyData EXCEPT
          ![1]["inventory"][0] = Item(1, "shirt", 1, 0, NoHash),
          ![2]["inventory"][0] = Item(2, "tonic", 1, 0, NoHash)],
      [EmptyData EXCEPT
          ![1]["toolbar"][0] = Item(1, "bandage", 2, 0, NoHash),
          ![1]["inventory"][0] = Item(2, "food", 1, 0, NoHash)] }

NoCall == [rule |-> NoRule, i |-> 0, called |-> <<>>, answers |-> <<>>, result |-> "none"]

\* DEFAULT_CONFIG.WEATHER_ROTATION as configured
RotationLen == 3

BootRotation == [i \in 1..RotationLen |-> i]

\* The world clock and the vehicle poll while the inventory is modelled
WorldAtRest ==
    /\ hour = 0
    /\ minute = 0
    /\ WEATHER_ROTATION = BootRotation
    /\ USE_SERVER_TIME = FALSE
    /\ MINUTES_PER_MINUTE = 1
    /\ now = 0

VehicleAtRest ==
    /\ attempts = 0
    /\ interval = "none"
    /\ resolved = <<>>
    /\ vehicleValid = FALSE
    /\ warped = FALSE

InitShared ==
    /\ GROUND_ITEMS = <<>>
    /\ ITEM_RULES = [k \in RuleKinds |-> <<>>]
    /\ reqs = [r \in 1..MaxInFlight |-> NoReq]
    /\ streamed = {}
    /\ vcall = NoCall
    /\ WorldAtRest
    /\ VehicleAtRest

Init ==
    /\ data \in Layouts
    /\ weapons = [a \in Actors |->
                    \E s \in Slots("toolbar") : data[a]["toolbar"][s] # NoItem]
    /\ InitShared

---------------------------------------------------------------------------
(* Actions *)

RECURSIVE SumLen(_, _)
SumLen(rules, kinds) ==
    IF kinds = {} THEN 0
    ELSE LET k == CHOOSE k \in kinds : TRUE
         IN  Len(rules[k]) + SumLen(rules, kinds \ {k})

\* The model's bounds on what a handler may leave behind.
OccupiedSlots(d) ==
    { <<a, n, s>> \in Actors \X OwnedNames \X (0..(InvSlots - 1)) :
        s \in Slots(n) /\ d[a][n][s] # NoItem }

WithinBounds(st) ==
    /\ Len(st.ground) <= MaxGround
    /\ Cardinality(OccupiedSlots(st.data)) + Len(st.ground) <= MaxItems
    /\ \A k \in 1..Len(st.ground) : st.ground[k].item.hash <= MaxTokens
    /\ \A a \in Actors, s \in Slots("inventory") : st.data[a]["inventory"][s].uid <= MaxUid

Leaves(st) ==
    /\ data' = st.data
    /\ GROUND_ITEMS' = st.ground
    /\ weapons' = st.weapons
    /\ streamed' = st.streamed

IdleSlots == { r \in DOMAIN reqs : reqs[r] = NoReq }

\* A handler is invoked by a client event and runs to its end or to its
\* first await of a rule predicate.
Invoke(R) ==
    /\ WithinBounds(R.st)
    /\ Leaves(R.st)
    /\ IF R.susp = NoReq
       THEN reqs' = reqs
       ELSE /\ IdleSlots # {}
            /\ reqs' = [reqs EXCEPT ![CHOOSE r \in IdleSlots : \A q \in IdleSlots : r <= q]
                                        = R.susp]
    /\ UNCHANGED <<ITEM_RULES, vcall, worldVars, vehicleVars>>

\* The slot identifiers of a request: both well formed, or one malformed
\* next to a well-formed one
SlotPairs ==
    (OwnedIds \X OwnedIds)
        \cup (MalformedIds \X {<<"i-", "0">>}) \cup ({<<"i-", "0">>} \X MalformedIds)

TrackedHashes == { GROUND_ITEMS[k].item.hash : k \in 1..Len(GROUND_ITEMS) }

\* The token, the vehicle and the position of a pickup request
PickupInputs ==
    (TrackedHashes \X {FALSE} \X Positions)
        \cup ((TrackedHashes \cup {NoHash, UntrackedHash}) \X BOOLEAN \X {0})

\* alt.onClient(View_Events_Inventory.Process, processItemMovement).  The
\* token, the vehicle and the position are inputs only where the handler
\* reads them: on the ground paths.
Process(a) ==
    \/ Invoke(processItemMovement(Cur, a, FALSE, <<"i-", "0">>, <<"i-", "1">>,
                                  NoHash, FALSE, 0))
    \/ \E p \in SlotPairs :
        Invoke(processItemMovement(Cur, a, TRUE, p[1], p[2], NoHash, FALSE, 0))
    \/ \E selectedSlot \in SlotIds, inVehicle \in BOOLEAN, pos \in DropPositions :
        /\ inVehicle => selectedSlot = <<"i-", "0">>
        /\ Invoke(processItemMovement(Cur, a, TRUE, selectedSlot, GroundId,
                                      NoHash, inVehicle, pos))
    \/ \E endSlot \in SlotIds \ {GroundId}, in \in PickupInputs :
        /\ (in[1] \notin TrackedHashes \/ in[2]) => endSlot = <<"i-", "0">>
        /\ Invoke(processItemMovement(Cur, a, TRUE, GroundId, endSlot,
                                      in[1], in[2], in[3]))

\* alt.onClient(View_Events_Inventory.Pickup, handleProcessPickup)
Pickup(a) ==
    \E in \in PickupInputs :
        Invoke(handleProcessPickup(Cur, a, in[1], in[2], in[3]))

\* alt.onClient(View_Events_Inventory.Use, processUse)
Use(a) ==
    \E selectedSlot \in SlotIds \cup {EmptySlotId} :
        Invoke(processUse(Cur, a, selectedSlot))

\* alt.onClient(View_Events_Inventory.Split, processSplit)
Split(a) ==
    \E selectedSlot \in SlotIds, amount \in Amounts :
        /\ selectedSlot[1] # "i-" => amount = 1
        /\ Invoke(processSplit(Cur, a, selectedSlot, amount))

\* The predicate a suspended invocation awaits answers and its handler goes on.
Resume(r) ==
    /\ reqs[r] # NoReq
    /\ \E didPass \in BOOLEAN, pos \in DropPositions :
        LET R == resume(Cur, reqs[r], didPass, pos)
        IN  /\ WithinBounds(R.st)
            /\ Leaves(R.st)
            /\ reqs' = [reqs EXCEPT ![r] = R.susp]
            /\ UNCHANGED <<ITEM_RULES, vcall, worldVars, vehicleVars>>

\* A collaborator registers a rule.
AddRule(limit) ==
    /\ SumLen(ITEM_RULES, RuleKinds) < limit
    /\ \E rule \in RuleInputs, callback \in Preds :
        ITEM_RULES' = addRule(ITEM_RULES, rule, callback)
    /\ UNCHANGED <<data, GROUND_ITEMS, reqs, weapons, streamed, vcall, worldVars, vehicleVars>>

\* The transfers with no rule registered: every handler runs to its end.
Next ==
    \/ \E a \in Actors : Process(a)
    \/ \E a \in Actors : Pickup(a)

Spec == Init /\ [][Next]_vars

\* A move between two owned slots
Move(a) ==
    \E p \in OwnedIds \X OwnedIds :
        Invoke(processItemMovement(Cur, a, TRUE, p[1], p[2], NoHash, FALSE, 0))

\* Uses and splits, with moves among the owned slots and no rule registered
NextUse ==
    \/ \E a \in Actors : Use(a)
    \/ \E a \in Actors : Split(a)
    \/ \E a \in Actors : Move(a)

SpecUse == Init /\ [][NextUse]_vars


---------------------------------------------------------------------------
(* Requests that interleave at the awaits of rule predicates *)

\* The kinds the interleaving runs register their predicate under
RaceKinds == {"FROM_TOOLBAR_TO_INVENTORY", "FROM_INVENTORY_TO_GROUND",
              "FROM_GROUND_TO_INVENTORY"}

RaceLayout ==
    [EmptyData EXCEPT
        ![1]["inventory"][0] = Item(1, "food", 2, 0, NoHash),
        ![1]["toolbar"][0] = Item(2, "gun", 1, 0, NoHash)]

InitRace ==
    /\ data = RaceLayout
    /\ weapons = [a \in Actors |-> a = 1]
    /\ GROUND_ITEMS = <<>>
    /\ \E k \in RaceKinds :
        ITEM_RULES = addRule([r \in RuleKinds |-> <<>>], k, "p")
    /\ reqs = [r \in 1..MaxInFlight |-> NoReq]
    /\ streamed = {}
    /\ vcall = NoCall
    /\ WorldAtRest
    /\ VehicleAtRest

\* Well-formed requests of a player on foot next to the dropped items
RaceMove(a) ==
    \E selectedSlot \in OwnedIds, endSlot \in OwnedIds \cup {GroundId} :
        Invoke(processItemMovement(Cur, a, TRUE, selectedSlot, endSlot, NoHash, FALSE, 0))

RacePickup(a) ==
    \E endSlot \in OwnedIds, hash \in TrackedHashes :
        Invoke(processItemMovement(Cur, a, TRUE, GroundId, endSlot, hash, FALSE, 0))

NextRace ==
    \/ \E a \in Actors : RaceMove(a)
    \/ \E a \in Actors : RacePickup(a)
    \/ \E r \in DOMAIN reqs : Resume(r)

SpecRace == InitRace /\ [][NextRace]_vars

\* Three items dropped in a pile and picked up again, the pickups into the
\* inventory under a predicate
MaxPile == 3

PileLayout ==
    [EmptyData EXCEPT
        ![1]["toolbar"][0] = Item(1, "gun", 1, 0, NoHash),
        ![1]["inventory"][0] = Item(2, "food", 1, 0, NoHash),
        ![1]["inventory"][1] = Item(3, "tonic", 1, 1, NoHash)]

InitPile ==
    /\ data = PileLayout
    /\ weapons = [a \in Actors |-> a = 1]
    /\ GROUND_ITEMS = <<>>
    /\ ITEM_RULES = addRule([r \in RuleKinds |-> <<>>], "FROM_GROUND_TO_INVENTORY", "p")
    /\ reqs = [r \in 1..MaxInFlight |-> NoReq]
    /\ streamed = {}
    /\ vcall = NoCall
    /\ WorldAtRest
    /\ VehicleAtRest

WithinPile(st) ==
    /\ Len(st.ground) <= MaxPile
    /\ Cardinality(OccupiedSlots(st.data)) + Len(st.ground) <= MaxPile
    /\ \A k \in 1..Len(st.ground) : st.ground[k].item.hash <= MaxPile

\* A handler invoked by a client event of the pile
InvokePile(R) ==
    /\ WithinPile(R.st)
    /\ Leaves(R.st)
    /\ IF R.susp = NoReq
       THEN reqs' = reqs
       ELSE /\ IdleSlots # {}
            /\ reqs' = [reqs EXCEPT ![CHOOSE r \in IdleSlots : \A q \in IdleSlots : r <= q]
                                        = R.susp]
    /\ UNCHANGED <<ITEM_RULES, vcall, worldVars, vehicleVars>>

PileDrop(a) ==
    \E selectedSlot \in OwnedIds :
        InvokePile(processItemMovement(Cur, a, TRUE, selectedSlot, GroundId,
                                       NoHash, FALSE, 0))

PilePickup(a) ==
    \E endSlot \in OwnedIds, hash \in TrackedHashes :
        InvokePile(processItemMovement(Cur, a, TRUE, GroundId, endSlot, hash, FALSE, 0))

PileResume(r) ==
    /\ reqs[r] # NoReq
    /\ \E didPass \in BOOLEAN :
        LET R == resume(Cur, reqs[r], didPass, 0)
        IN  /\ WithinPile(R.st)
            /\ Leaves(R.st)
            /\ reqs' = [reqs EXCEPT ![r] = R.susp]
            /\ UNCHANGED <<ITEM_RULES, vcall, worldVars, vehicleVars>>

NextPile ==
    \/ \E a \in Actors : PileDrop(a)
    \/ \E a \in Actors : PilePickup(a)
    \/ \E r \in DOMAIN reqs : PileResume(r)

SpecPile == InitPile /\ [][NextPile]_vars

\* Two garments and a gun, moved, dropped, picked up and used with no rule
\* registered
EquipLayout ==
    [EmptyData EXCEPT
        ![1]["inventory"][0] = Item(1, "shirt", 1, 0, NoHash),
        ![1]["inventory"][1] = Item(2, "blouse", 1, 1, NoHash),
        ![1]["toolbar"][0] = Item(3, "gun", 1, 0, NoHash)]

InitEquip ==
    /\ data = EquipLayout
    /\ weapons = [a \in Actors |-> a = 1]
    /\ InitShared

NextEquip ==
    \/ \E a \in Actors : RaceMove(a)
    \/ \E a \in Actors : RacePickup(a)
    \/ \E a \in Actors : Use(a)

SpecEquip == InitEquip /\ [][NextEquip]_vars

\* Pickups that name no slot, under a predicate of the pickups into the
\* inventory, among moves and drops of the same players
InitSlotless ==
    /\ data = RaceLayout
    /\ weapons = [a \in Actors |-> a = 1]
    /\ GROUND_ITEMS = <<>>
    /\ ITEM_RULES = addRule([r \in RuleKinds |-> <<>>], "FROM_GROUND_TO_INVENTORY", "p")
    /\ reqs = [r \in 1..MaxInFlight |-> NoReq]
    /\ streamed = {}
    /\ vcall = NoCall
    /\ WorldAtRest
    /\ VehicleAtRest

SlotlessPickup(a) ==
    \E hash \in TrackedHashes :
        Invoke(handleProcessPickup(Cur, a, hash, FALSE, 0))

NextSlotless ==
    \/ \E a \in Actors : RaceMove(a)
    \/ \E a \in Actors : SlotlessPickup(a)
    \/ \E r \in DOMAIN reqs : Resume(r)

SpecSlotless == InitSlotless /\ [][NextSlotless]_vars

\* The kinds of handlePickupGround, one of them holding a predicate
GroundKinds == {"FROM_GROUND_TO_INVENTORY", "FROM_GROUND_TO_TOOLBAR",
                "FROM_GROUND_TO_EQUIPMENT"}

GroundLayout ==
    [EmptyData EXCEPT
        ![1]["inventory"][0] = Item(1, "shirt", 1, 0, NoHash),
        ![1]["toolbar"][0] = Item(2, "gun", 1, 0, NoHash)]

InitGround ==
    /\ data = GroundLayout
    /\ weapons = [a \in Actors |-> a = 1]
    /\ GROUND_ITEMS = <<>>
    /\ \E k \in GroundKinds :
        ITEM_RULES = addRule([r \in RuleKinds |-> <<>>], k, "p")
    /\ reqs = [r \in 1..MaxInFlight |-> NoReq]
    /\ streamed = {}
    /\ vcall = NoCall
    /\ WorldAtRest
    /\ VehicleAtRest

\* Drops and pickups into each container under a rule of the pickups
SpecGround == InitGround /\ [][NextRace]_vars

\* Well-formed moves, drops, pickups, uses and splits with no rule registered
NextAll ==
    \/ \E a \in Actors : RaceMove(a)
    \/ \E a \in Actors : RacePickup(a)
    \/ \E a \in Actors : Use(a)
    \/ \E a \in Actors : Split(a)

\* One stack to move, use, split, drop and pick up
AllLayout ==
    [EmptyData EXCEPT ![1]["inventory"][0] = Item(1, "food", MaxQuantity, 0, NoHash)]

InitAll ==
    /\ data = AllLayout
    /\ weapons = [a \in Actors |-> FALSE]
    /\ InitShared

SpecAll == InitAll /\ [][NextAll]_vars

---------------------------------------------------------------------------
(* The rule registry on its own: registrations and one verifyRules call *)

\* The kinds the model verifies rules of
VerifyKinds == {"FROM_INVENTORY_TO_TOOLBAR", "FROM_GROUND_TO_INVENTORY"}

\* verifyRules(rule, ...) is called: it returns true at once, or calls the
\* predicate at index 0 and awaits it.
CallVerifyRules ==
    /\ vcall.result # "running"
    /\ \E rule \in VerifyKinds :
        vcall' = IF verifyRulesReturnsAtOnce(ITEM_RULES, rule)
                 THEN [NoCall EXCEPT !.rule = rule, !.result = "true"]
                 ELSE [NoCall EXCEPT !.rule = rule, !.result = "running",
                                     !.called = <<ITEM_RULES[rule][1]>>]
    /\ UNCHANGED <<data, GROUND_ITEMS, ITEM_RULES, reqs, weapons, streamed, worldVars, vehicleVars>>

\* The awaited predicate answers and the loop goes on.
AnswerVerifyRules ==
    /\ vcall.result = "running"
    /\ \E didPass \in BOOLEAN :
        LET v == verifyRulesAfter(ITEM_RULES, vcall.rule, vcall.i, didPass)
            answered == [vcall EXCEPT !.answers = Append(@, didPass)]
        IN  vcall' = IF v = "call"
                     THEN [answered EXCEPT
                              !.i = @ + 1,
                              !.called = Append(@, ITEM_RULES[vcall.rule][vcall.i + 2])]
                     ELSE [answered EXCEPT !.result = v]
    /\ UNCHANGED <<data, GROUND_ITEMS, ITEM_RULES, reqs, weapons, streamed, worldVars, vehicleVars>>

AddRuleDeep == AddRule(MaxRulesDeep)

NextRules ==
    \/ AddRuleDeep
    \/ CallVerifyRules
    \/ AnswerVerifyRules

SpecRules == Init /\ [][NextRules]_vars

---------------------------------------------------------------------------
(* Properties *)

\* The requests a connected player's client sends with well-formed slots
MoveInputs == OwnedIds \X OwnedIds

\* C1: every request to an entry point (move, use, split) that has ended has
\* resynchronized the inventory of the requesting actor, whether it
\* succeeded or was rejected.
C1_EveryEndedRequestResyncs ==
    \A a \in Actors :
        /\ \A s \in OwnedIds : processUse(Cur, a, s).sync
        /\ \A s \in OwnedIds, amount \in Amounts : processSplit(Cur, a, s, amount).sync
        /\ \A p \in MoveInputs :
            LET R == processItemMovement(Cur, a, TRUE, p[1], p[2], NoHash, FALSE, 0)
            IN  R.susp = NoReq => R.sync

\* The places an item instance is in: owned slots and ground entries
PlacesOf(uid) ==
    { <<a, n, s>> \in Actors \X OwnedNames \X (0..(InvSlots - 1)) :
        s \in Slots(n) /\ data[a][n][s].uid = uid }
        \cup { <<0, "ground", k>> : k \in { j \in 1..Len(GROUND_ITEMS) :
                                              GROUND_ITEMS[j].item.uid = uid } }

\* C2: in every reachable state, requests interleaving at the awaits
\* included, no item instance is in more than one place among the
\* inventories, toolbars, equipment and the ground.
C2_NoItemInTwoPlaces ==
    \A uid \in 1..MaxUid : Cardinality(PlacesOf(uid)) <= 1

\* The actors other than a that hold the item instance uid in a container
OtherHolders(a, uid) ==
    { b \in Actors \ {a} : \E pl \in PlacesOf(uid) : pl[1] = b }

\* C3: when two actors request the pickup of the same ground token and one
\* of them has inserted the item while the other was suspended in rule
\* verification, the other finds the token no longer tracked, is rejected
\* and receives no item.
C3_OnePickupPerToken ==
    \A r \in DOMAIN reqs :
        (/\ reqs[r].pc = "pickup"
         /\ reqs[r].hash \notin TrackedHashes
         /\ OtherHolders(reqs[r].a, reqs[r].item.uid) # {})
            => LET R == resume(Cur, reqs[r], TRUE, 0)
               IN  /\ R.out # "pickedUp"
                   /\ R.st.data = data
                   /\ R.st.ground = GROUND_ITEMS

\* C4: while a transfer request of an actor is suspended between reading
\* its slots and its commit or abort, no other request of that actor
\* changes the actor's containers.
C4_TransfersSerializedPerActor ==
    [][\A r \in DOMAIN reqs :
          (reqs[r] # NoReq /\ reqs'[r] = reqs[r])
              => data'[reqs[r].a] = data[reqs[r].a]]_vars

\* C5: a move between two different owned container kinds whose
\* source-to-destination rule answers false leaves the containers, the
\* ground and the wielded weapons as they were before the request.
C5_RuleRejectionHasNoSideEffects ==
    \A a \in Actors, p \in MoveInputs :
        LET R == processItemMovement(Cur, a, TRUE, p[1], p[2], NoHash, FALSE, 0)
        IN  R.susp.pc = "moveSel"
                => LET Rej == resume(R.st, R.susp, FALSE, 0)
                   IN  /\ Rej.out = "ruleRejected"
                       /\ Rej.st = Cur

\* C6: a move onto an occupied slot of a different container kind runs the
\* predicates of the source-to-destination kind on the source item and the
\* predicates of the destination-to-source kind on the occupant before the
\* swap-or-stack step.
C6_SwapRunsBothDirections ==
    \A a \in Actors, p \in MoveInputs :
        LET selectData == FindData(p[1])
            endData == FindData(p[2])
            source == getItem(data, a, selectData.name, stripCategory(p[1]))
            occupant == getItem(data, a, endData.name, stripCategory(p[2]))
            rules == getInventoryRule(selectData, endData)
            R == processItemMovement(Cur, a, TRUE, p[1], p[2], NoHash, FALSE, 0)
        IN  (selectData.abbrv # endData.abbrv /\ source # NoItem /\ occupant # NoItem)
                => /\ Len(ITEM_RULES[rules.selected]) > 0
                        => /\ R.susp.pc = "moveSel"
                           /\ R.susp.rule = rules.selected
                           /\ R.susp.item = source
                   /\ (Len(ITEM_RULES[rules.selected]) = 0 /\ Len(ITEM_RULES[rules.end]) > 0)
                        => /\ R.susp.pc = "moveEnd"
                           /\ R.susp.rule = rules.end
                           /\ R.susp.item = occupant

RECURSIVE SumQuantity(_)
SumQuantity(items) ==
    IF items = <<>> THEN 0 ELSE Head(items).quantity + SumQuantity(Tail(items))

\* The quantity of a base held in the actor's three containers and on the ground
Held(st, a, base) ==
    LET Of(item) == IF item.base = base THEN item ELSE NoItem
        In(name) == [k \in 1..Capacity(name) |-> Of(st.data[a][name][k - 1])]
    IN  SumQuantity(In("inventory")) + SumQuantity(In("toolbar"))
            + SumQuantity(In("equipment"))
            + SumQuantity([k \in 1..Len(st.ground) |-> Of(st.ground[k].item)])

\* The outcomes that are rejections of a transfer
Rejections ==
    {"sameSlot", "noItem", "invalidPlacement", "sexMismatch", "removeFailed", "addFailed",
     "inVehicle", "cannotDrop", "groundToGround", "slotTaken", "noHash", "notTracked",
     "tooFar", "nothingRemoved", "ruleRejected", "swapMissing", "noFreeSlot"}

Conserves(R, a) ==
    R.out \in Rejections => \A base \in Bases : Held(R.st, a, base) = Held(Cur, a, base)

\* C7: a transfer request that ends in rejection leaves the quantity of
\* every item type held in the actor's containers and on the ground as it
\* was, the rejections after the removal from the source or from the
\* ground included.
C7_RejectionConservesQuantities ==
    /\ \A a \in Actors, p \in MoveInputs \cup (OwnedIds \X {GroundId}) :
            Conserves(processItemMovement(Cur, a, TRUE, p[1], p[2], NoHash, FALSE, 0), a)
    /\ \A a \in Actors, endSlot \in OwnedIds, hash \in TrackedHashes :
            Conserves(processItemMovement(Cur, a, TRUE, GroundId, endSlot, hash, FALSE, 0), a)
    /\ \A r \in DOMAIN reqs, didPass \in BOOLEAN :
            reqs[r] # NoReq => Conserves(resume(Cur, reqs[r], didPass, 0), reqs[r].a)

IsPrefix(p, q) == Len(p) <= Len(q) /\ \A k \in 1..Len(p) : p[k] = q[k]

AllPassed(answers) == \A k \in 1..Len(answers) : answers[k]

\* C8: verifyRules calls the predicates registered for the kind in
\* registration order, one at a time; it returns false at the first falsy
\* answer and calls no later predicate; it returns true iff every predicate
\* passed, and returns true when the list is empty.
C8_VerifyRulesInOrder ==
    /\ [](vcall.result # "none" =>
          /\ IsPrefix(vcall.called, ITEM_RULES[vcall.rule])
          /\ vcall.result = "running"
                => /\ Len(vcall.called) = Len(vcall.answers) + 1
                   /\ AllPassed(vcall.answers)
          /\ vcall.result \in {"true", "false"}
                => /\ Len(vcall.called) = Len(vcall.answers)
                   /\ AllPassed(SubSeq(vcall.answers, 1, Len(vcall.answers) - 1))
          /\ vcall.result = "true" => AllPassed(vcall.answers)
          /\ vcall.result = "false"
                => Len(vcall.answers) > 0 /\ ~vcall.answers[Len(vcall.answers)])
    /\ [][(vcall' # vcall /\ vcall'.result = "true")
              => vcall'.called = ITEM_RULES'[vcall'.rule]]_vars
    /\ [][(vcall' # vcall /\ vcall.result # "running"
              /\ ITEM_RULES[vcall'.rule] = <<>>)
              => (vcall'.result = "true" /\ vcall'.called = <<>>)]_vars

\* A call that stopped at the second of three predicates
C8_Witness ==
    /\ vcall.result = "false"
    /\ vcall.answers = <<TRUE, FALSE>>
    /\ Len(ITEM_RULES[vcall.rule]) = 3
    /\ vcall.called = SubSeq(ITEM_RULES[vcall.rule], 1, 2)

\* C9: addRule with a known kind appends the predicate at the end of the
\* list of that kind, leaves the other lists unchanged and returns true;
\* with an unknown kind it returns false and leaves every list unchanged;
\* the registry holds exactly the twelve kinds.
C9_AddRuleAppends ==
    /\ DOMAIN ITEM_RULES = RuleKinds
    /\ Cardinality(DOMAIN ITEM_RULES) = 12
    /\ \A rule \in RuleInputs, callback \in Preds :
        LET after == addRule(ITEM_RULES, rule, callback)
        IN  IF rule \in RuleKinds
            THEN /\ addRuleReturns(ITEM_RULES, rule)
                 /\ after[rule] = Append(ITEM_RULES[rule], callback)
                 /\ DOMAIN after = RuleKinds
                 /\ \A k \in RuleKinds \ {rule} : after[k] = ITEM_RULES[k]
            ELSE /\ ~addRuleReturns(ITEM_RULES, rule)
                 /\ after = ITEM_RULES

\* Two callbacks registered under one kind, a third under another
C9_Witness ==
    /\ ITEM_RULES["FROM_INVENTORY_TO_TOOLBAR"] = <<"p", "q">>
    /\ ITEM_RULES["FROM_GROUND_TO_INVENTORY"] = <<"q">>
    /\ \A k \in RuleKinds \ {"FROM_INVENTORY_TO_TOOLBAR", "FROM_GROUND_TO_INVENTORY"} :
            ITEM_RULES[k] = <<>>

\* C10: processSplit of an inventory stack of quantity q by amount n with
\* 0 < n < q and a free inventory slot leaves q - n in the source slot and
\* puts a new stack of n in a slot that was free, all else unchanged; any
\* other request is rejected and changes nothing.
C10_SplitSemantics ==
    \A a \in Actors, selectedSlot \in SlotIds, amount \in Amounts :
        LET R == processSplit(Cur, a, selectedSlot, amount)
            idx == stripCategory(selectedSlot)
            src == getItem(data, a, "inventory", idx)
            accepted == /\ amount # NaN
                        /\ selectedSlot[1] = "i-"
                        /\ src # NoItem
                        /\ 0 < amount
                        /\ amount < src.quantity
                        /\ HasFreeInventorySlot(data, a)
        IN  IF accepted
            THEN \E t \in Slots("inventory") \ {idx} :
                    /\ data[a]["inventory"][t] = NoItem
                    /\ R.st.data[a]["inventory"][t].quantity = amount
                    /\ R.st.data[a]["inventory"][t].base = src.base
                    /\ R.st.data[a]["inventory"][t].slot = t
                    /\ R.st.data[a]["inventory"][idx] = [src EXCEPT !.quantity = @ - amount]
                    /\ R.st = [Cur EXCEPT
                                  !.data[a]["inventory"][t] = R.st.data[a]["inventory"][t],
                                  !.data[a]["inventory"][idx].quantity = src.quantity - amount]
            ELSE R.st = Cur

\* A stack that was split: two stacks of one base with distinct identities
\* in one inventory, holding the quantity of the one stack there was
C10_Witness ==
    \E a \in Actors :
        /\ data[a]["inventory"][0].base = "food"
        /\ data[a]["inventory"][1].base = "food"
        /\ data[a]["inventory"][0].uid # data[a]["inventory"][1].uid
        /\ data[a]["inventory"][0].quantity + data[a]["inventory"][1].quantity = MaxQuantity

\* The state with one owned slot of an actor set to an item
WithSlot(st, a, name, slot, item) == [st EXCEPT !.data[a][name][slot] = item]

\* C11: using a consumable that is no equipment item and has no
\* skip-consumption flag, held in slot s of the inventory or the toolbar,
\* removes it from that slot when its quantity is 1 and leaves it there with
\* one less otherwise; nothing else changes.
C11_UseConsumesInPlace ==
    \A a \in Actors, selectedSlot \in OwnedIds :
        LET name == FindData(selectedSlot).name
            slot == stripCategory(selectedSlot)
            item == getItem(data, a, name, slot)
            R == processUse(Cur, a, selectedSlot)
        IN  (/\ name \in {"inventory", "toolbar"}
             /\ item # NoItem
             /\ EquipmentOf(item) = NoEquip
             /\ isFlagEnabled(item, "CONSUMABLE")
             /\ ~isFlagEnabled(item, "SKIP_CONSUMABLE"))
                => R.st = WithSlot(Cur, a, name, slot,
                                   IF item.quantity = 1 THEN NoItem
                                   ELSE [item EXCEPT !.quantity = @ - 1])

InventoryIds == { id \in OwnedIds : id[1] = "i-" }

\* C12: dropping a droppable item that is not destroyed on drop from an
\* inventory slot and picking it up by its token into a free inventory slot
\* (on foot, in range, no rule registered) yields in that slot the original
\* item but for its token and its slot index, and leaves the ground as it
\* was before the drop.
C12_DropPickupRoundTrip ==
    \A a \in Actors, selectedSlot \in InventoryIds :
        LET original == getItem(data, a, "inventory", stripCategory(selectedSlot))
            D == processItemMovement(Cur, a, TRUE, selectedSlot, GroundId, NoHash, FALSE, 0)
        IN  (/\ original # NoItem
             /\ isFlagEnabled(original, "CAN_DROP")
             /\ ~isFlagEnabled(original, "DESTROY_ON_DROP")
             /\ WithinBounds(D.st))
                => /\ D.out = "dropped"
                   /\ \A b \in Actors, endSlot \in InventoryIds, pos \in Positions :
                        LET hash == D.st.ground[Len(D.st.ground)].item.hash
                            slot == stripCategory(endSlot)
                            P == processItemMovement(D.st, b, TRUE, GroundId, endSlot,
                                                     hash, FALSE, pos)
                        IN  (/\ emptyCheck(D.st.data, b, "inventory", slot)
                             /\ distance2d(pos, 0) < PickupRadius)
                                => /\ P.out = "pickedUp"
                                   /\ P.st.data[b]["inventory"][slot]
                                        = [original EXCEPT !.slot = slot, !.hash = hash]
                                   /\ P.st.ground = GROUND_ITEMS

\* An item that was dropped and picked up: it is in an inventory and
\* carries a token, next to an entry that stayed on the ground
C12_Witness ==
    /\ Len(GROUND_ITEMS) = 1
    /\ \E a \in Actors, s \in Slots("inventory") :
        /\ data[a]["inventory"][s].hash # NoHash
        /\ data[a]["inventory"][s].hash # GROUND_ITEMS[1].item.hash

\* The preconditions of a pickup other than the distance, with no rule
\* registered: on foot, a free slot the item may go to
PickupAllowed(a, endSlot, entry) ==
    LET endData == FindData(endSlot)
        slot == stripCategory(endSlot)
    IN  /\ emptyCheck(data, a, endData.name, slot)
        /\ allItemRulesValid(entry.item, endData.name, slot)
        /\ ~(/\ isFlagEnabled(entry.item, "IS_EQUIPMENT")
              /\ endData.name = "equipment"
              /\ SexOf(entry.item) # ActorSex(a))

\* C13: a pickup of a tracked token from farther than 10 units is rejected
\* and leaves the ground and the containers unchanged; from nearer than 10
\* units, the other preconditions holding, it is accepted.
C13_PickupRadius ==
    \A a \in Actors, endSlot \in OwnedIds, k \in 1..Len(GROUND_ITEMS), pos \in Positions :
        LET entry == GROUND_ITEMS[k]
            R == processItemMovement(Cur, a, TRUE, GroundId, endSlot,
                                     entry.item.hash, FALSE, pos)
        IN  /\ distance2d(pos, entry.position) > 10
                => (R.susp = NoReq /\ R.out # "pickedUp" /\ R.st = Cur)
            /\ (distance2d(pos, entry.position) < 10 /\ PickupAllowed(a, endSlot, entry))
                => (R.out = "pickedUp"
                    /\ R.st.data[a][FindData(endSlot).name][stripCategory(endSlot)].uid
                            = entry.item.uid)

\* A dropped item an actor cannot pick up from 11 units and can from 0
C13_Witness ==
    \E a \in Actors, endSlot \in OwnedIds, k \in 1..Len(GROUND_ITEMS) :
        LET h == GROUND_ITEMS[k].item.hash
        IN  /\ GROUND_ITEMS[k].position = 0
            /\ processItemMovement(Cur, a, TRUE, GroundId, endSlot, h, FALSE, 11).out = "tooFar"
            /\ processItemMovement(Cur, a, TRUE, GroundId, endSlot, h, FALSE, 0).out = "pickedUp"

\* C14: in every reachable state, after any drops and pickups by any
\* actors, no two entries of the ground carry the same token (the token
\* generator returning a value not in use).
C14_GroundTokensUnique ==
    \A j, k \in 1..Len(GROUND_ITEMS) :
        GROUND_ITEMS[j].item.hash = GROUND_ITEMS[k].item.hash => j = k

\* Two items on the ground, dropped one after the other
C14_Witness ==
    /\ Len(GROUND_ITEMS) = 2
    /\ GROUND_ITEMS[1].item.hash # NoHash
    /\ GROUND_ITEMS[2].item.hash # NoHash
    /\ GROUND_ITEMS[1].item.uid # GROUND_ITEMS[2].item.uid

\* C15: after any moves, uses, splits, drops and pickups (split amounts
\* being integers), every item in a container or on the ground has a
\* quantity of at least 1.
C15_QuantitiesPositive ==
    /\ \A a \in Actors, n \in OwnedNames :
          \A s \in Slots(n) :
              data[a][n][s] # NoItem => data[a][n][s].quantity >= 1
    /\ \A k \in 1..Len(GROUND_ITEMS) : GROUND_ITEMS[k].item.quantity >= 1

\* A stack was split, one piece of it was used down to a single unit and
\* another lies on the ground
C15_Witness ==
    /\ \E a \in Actors, s \in Slots("inventory") :
          /\ data[a]["inventory"][s] # NoItem
          /\ data[a]["inventory"][s].uid > 2
          /\ data[a]["inventory"][s].quantity = 1
    /\ \E k \in 1..Len(GROUND_ITEMS) :
          /\ GROUND_ITEMS[k].item.base = "food"
          /\ GROUND_ITEMS[k].item.quantity = 1

\* The identifiers with an unknown prefix or an index that is no number
Unparsable ==
    { id \in MalformedIds : FindData(id) = NoData \/ stripCategory(id) = NaN }

\* C16: a move naming a slot identifier with an unknown prefix or an index
\* that is no number is rejected as a validation failure: the handler
\* throws nothing, changes no container, no ground entry and no weapon
\* state, and resynchronizes the client before it returns.
C16_MalformedIdsRejected ==
    \A a \in Actors :
        \A p \in (Unparsable \X OwnedIds) \cup (OwnedIds \X Unparsable) :
            LET R == processItemMovement(Cur, a, TRUE, p[1], p[2], NoHash, FALSE, 0)
            IN  /\ R.out # "threw"
                /\ R.susp = NoReq
                /\ R.st = Cur
                /\ R.sync

\* What a pickup of the token hash may do to the ground: the entries under
\* other tokens stay, and with no entry under hash nothing is removed and
\* nothing is inserted
KeepsOtherTokens(R, hash) ==
    /\ \A k \in 1..Len(GROUND_ITEMS) :
          GROUND_ITEMS[k].item.hash # hash =>
              \E j \in 1..Len(R.st.ground) : R.st.ground[j] = GROUND_ITEMS[k]
    /\ (\A k \in 1..Len(GROUND_ITEMS) : GROUND_ITEMS[k].item.hash # hash) =>
          /\ R.st.ground = GROUND_ITEMS
          /\ R.st.data = data

\* C17: a pickup for a token never removes a ground entry under another
\* token, and when no entry under its token exists it removes and inserts
\* nothing, whatever other requests ran while it was suspended.
C17_PickupRemovesOnlyItsToken ==
    /\ \A a \in Actors, endSlot \in OwnedIds, hash \in TrackedHashes \cup {UntrackedHash} :
          KeepsOtherTokens(processItemMovement(Cur, a, TRUE, GroundId, endSlot,
                                               hash, FALSE, 0), hash)
    /\ \A r \in DOMAIN reqs :
          reqs[r].pc = "pickup" =>
              \A didPass \in BOOLEAN :
                  KeepsOtherTokens(resume(Cur, reqs[r], didPass, 0), reqs[r].hash)

\* The kind whose predicates govern a pickup into the container of endSlot
RuleOfDestination(endSlot) ==
    CASE endSlot[1] = "i-" -> "FROM_GROUND_TO_INVENTORY"
      [] endSlot[1] = "t-" -> "FROM_GROUND_TO_TOOLBAR"
      [] endSlot[1] = "e-" -> "FROM_GROUND_TO_EQUIPMENT"

\* C18: a pickup into the inventory, the toolbar or the equipment runs the
\* predicates registered under FROM_GROUND_TO_ that container (it does not
\* complete before they answered), and when a predicate answers false the
\* pickup is rejected with the ground and the destination unchanged.
C18_PickupRunsDestinationRules ==
    /\ \A a \in Actors, endSlot \in OwnedIds, hash \in TrackedHashes :
          LET R == processItemMovement(Cur, a, TRUE, GroundId, endSlot, hash, FALSE, 0)
              rule == RuleOfDestination(endSlot)
          IN  ITEM_RULES[rule] # <<>> =>
                  /\ R.out # "pickedUp"
                  /\ R.susp # NoReq => R.susp.rule = rule
    /\ \A r \in DOMAIN reqs :
          reqs[r].pc = "pickup" =>
              LET R == resume(Cur, reqs[r], FALSE, 0)
              IN  R.st = Cur /\ R.susp = NoReq

UidsOnGround(st) == { st.ground[k].item.uid : k \in 1..Len(st.ground) }

UidsHeld(st) == { i.uid : i \in ContainerItems(st.data) }

\* What the claim allows a pickup that ran to its end to leave: the item
\* in a container and off the ground, or, the insert having failed, nowhere
PickupLeavesOnePlace(R, uid) ==
    /\ R.out = "pickedUp" => uid \notin UidsOnGround(R.st)
    /\ R.out = "addFailed" => uid \notin UidsOnGround(R.st) \cup UidsHeld(R.st)

\* C19: a pickup removes the ground entry before it attempts the insert,
\* so no pickup leaves the picked-up item both on the ground and in an
\* owned container; and when the insert fails the item is in neither.
C19_RemovedBeforeInserted ==
    UidsOnGround(Cur) \cap UidsHeld(Cur) = {} =>
        /\ \A a \in Actors, endSlot \in OwnedIds, k \in 1..Len(GROUND_ITEMS) :
              PickupLeavesOnePlace(
                  processItemMovement(Cur, a, TRUE, GroundId, endSlot,
                                      GROUND_ITEMS[k].item.hash, FALSE, 0),
                  GROUND_ITEMS[k].item.uid)
        /\ \A r \in DOMAIN reqs :
              reqs[r].pc = "pickup" =>
                  PickupLeavesOnePlace(resume(Cur, reqs[r], TRUE, 0), reqs[r].item.uid)

\* C20: whenever no drop or pickup is in flight, the tokens registered with
\* ServerItemController and ServerObjectController (appended and not
\* removed) are the tokens of the entries of the ground, after any drops
\* and pickups, those rejected after the removal from the ground included.
C20_StreamedMirrorsGround ==
    (\A r \in DOMAIN reqs : reqs[r] = NoReq) => streamed = TrackedHashes

\* C21: a successful drop of an item flagged destroyed-on-drop removes it
\* from its source container and creates no ground entry and no streamer
\* registration; a successful drop of any other item removes it from the
\* source container and appends exactly one ground entry holding that item
\* with the dimension and the grid space of the dropping actor.
C21_DropDestroysOrAppendsOne ==
    \A a \in Actors, selectedSlot \in OwnedIds :
        LET name == FindData(selectedSlot).name
            slot == stripCategory(selectedSlot)
            item == data[a][name][slot]
            R == processItemMovement(Cur, a, TRUE, selectedSlot, GroundId,
                                     NoHash, FALSE, 0)
            removed == [data EXCEPT ![a][name][slot] = NoItem]
        IN  (item # NoItem /\ isFlagEnabled(item, "CAN_DROP")) =>
                IF isFlagEnabled(item, "DESTROY_ON_DROP")
                THEN /\ R.out = "destroyed"
                     /\ R.st.data = removed
                     /\ R.st.ground = GROUND_ITEMS
                     /\ R.st.streamed = streamed
                ELSE /\ R.out = "dropped"
                     /\ R.st.data = removed
                     /\ Len(R.st.ground) = Len(GROUND_ITEMS) + 1
                     /\ SubSeq(R.st.ground, 1, Len(GROUND_ITEMS)) = GROUND_ITEMS
                     /\ LET entry == R.st.ground[Len(R.st.ground)]
                        IN  /\ entry.item = [item EXCEPT !.hash = entry.item.hash]
                            /\ entry.dimension = DimensionOf(a)
                            /\ entry.gridSpace = GridSpaceOf(a)

\* The tonic was destroyed by its drop and the shirt lies on the ground
C21_Witness ==
    /\ Len(GROUND_ITEMS) = 1
    /\ GROUND_ITEMS[1].item.base = "shirt"
    /\ GROUND_ITEMS[1].gridSpace = GridSpaceOf(1)
    /\ streamed = {GROUND_ITEMS[1].item.hash}
    /\ \A i \in ContainerItems(data) : i.base # "tonic"

\* C22: a drop is rejected, with the source container and the ground
\* unchanged and nothing done but a resynchronization, whenever the actor
\* is in a vehicle, the source slot holds no item, the item lacks CAN_DROP,
\* the placement on the ground is invalid, or a predicate of the rule from
\* the source container to the ground answers false.
C22_DropRejectedUnchanged ==
    /\ \A a \in Actors, selectedSlot \in OwnedIds, inVehicle \in BOOLEAN :
          LET item == getItem(data, a, FindData(selectedSlot).name,
                              stripCategory(selectedSlot))
              R == processItemMovement(Cur, a, TRUE, selectedSlot, GroundId,
                                       NoHash, inVehicle, 0)
          IN  (\/ inVehicle
               \/ item = NoItem
               \/ ~isFlagEnabled(item, "CAN_DROP")
               \/ ~allItemRulesValid(item, "ground", NaN)) =>
                  /\ R.susp = NoReq
                  /\ R.sync
                  /\ R.st = Cur
    /\ \A r \in DOMAIN reqs :
          reqs[r].pc = "drop" =>
              LET R == resume(Cur, reqs[r], FALSE, 0)
              IN  /\ R.susp = NoReq
                  /\ R.sync
                  /\ R.st = Cur

InventoryId(s) == <<"i-", DigitTexts[s + 1]>>

EquipmentId(e) == <<"e-", DigitTexts[e + 1]>>

C24_SameSlotIsNoOp ==
    \A a \in Actors, id \in SlotIds, hash \in TrackedHashes \cup {NoHash},
       inVehicle \in BOOLEAN :
        LET R == processItemMovement(Cur, a, TRUE, id, id, hash, inVehicle, 0)
        IN  /\ R.out = "sameSlot"
            /\ R.sync
            /\ R.susp = NoReq
            /\ R.st = Cur

\* The gun is in the toolbar with its weapon given, an item lies on the
\* ground and a predicate is registered: a move of the toolbar slot onto
\* itself has something to change and changes nothing
C24_Witness ==
    /\ data[1]["toolbar"][0] # NoItem
    /\ weapons[1]
    /\ Len(GROUND_ITEMS) > 0
    /\ \E k \in RaceKinds : ITEM_RULES[k] # <<>>
    /\ processItemMovement(Cur, 1, TRUE, <<"t-", "0">>, <<"t-", "0">>,
                           NoHash, FALSE, 0).out = "sameSlot"

\* C25: the pickup that names no slot targets the first free inventory
\* slot; with no free inventory slot it only resynchronizes and leaves the
\* ground and the containers unchanged; and when it succeeds the item ends
\* in an inventory slot that was free when the insert was performed, also
\* when other requests ran while its rule verification was suspended.
C25_SlotlessPickup ==
    /\ \A a \in Actors, hash \in TrackedHashes \cup {NoHash, UntrackedHash} :
          LET R == handleProcessPickup(Cur, a, hash, FALSE, 0)
              free == getFreeInventorySlot(data, a)
          IN  IF ~HasFreeInventorySlot(data, a)
              THEN R.st = Cur /\ R.sync /\ R.susp = NoReq
              ELSE /\ R.susp # NoReq => R.susp.end = InventoryId(free)
                   /\ R.out = "pickedUp" =>
                          R.st.data = AddTo(data, a, "inventory",
                                            GROUND_ITEMS[findIndex(GROUND_ITEMS, hash)].item,
                                            free)
    /\ \A r \in DOMAIN reqs :
          reqs[r].pc = "pickup" =>
              LET R == resume(Cur, reqs[r], TRUE, 0)
                  slot == stripCategory(reqs[r].end)
              IN  R.out = "pickedUp" =>
                      /\ reqs[r].end[1] = "i-"
                      /\ data[reqs[r].a]["inventory"][slot] = NoItem
                      /\ R.st.data = AddTo(data, reqs[r].a, "inventory",
                                           reqs[r].item, slot)

\* A pickup that named no slot is suspended and the slot it chose has
\* been filled by a move meanwhile: its insert is refused
C25_Witness ==
    \E r \in DOMAIN reqs :
        /\ reqs[r].pc = "pickup"
        /\ data[reqs[r].a]["inventory"][stripCategory(reqs[r].end)] # NoItem
        /\ resume(Cur, reqs[r], TRUE, 0).out = "addFailed"

\* C26: starting with every equipped item satisfying its sex restriction,
\* after any moves, uses and pickups no equipment item whose sex
\* restriction differs from the sex of the actor is in the actor's
\* equipment.
C26_EquippedMatchesSex ==
    \A a \in Actors, e \in Slots("equipment") :
        LET item == data[a]["equipment"][e]
        IN  (item # NoItem /\ SexOf(item) # NoSex) => SexOf(item) = ActorSex(a)

---------------------------------------------------------------------------
(* World time and weather rotation, world.ts lines 92-122 and 153-155 *)

MaxStep == 3

MinutesPerHour == 60

HoursPerDay == 24

MinutesPerDay == HoursPerDay * MinutesPerHour

\* WEATHER_ROTATION.pop() followed by WEATHER_ROTATION.unshift(endElement)
popUnshift(rotation) ==
    <<rotation[Len(rotation)]>> \o SubSeq(rotation, 1, Len(rotation) - 1)

\* An update that lets the hour run past the end of the day
updateWorldTimeWithoutWrap(W, time) ==
    LET stepped == W.minute + MINUTES_PER_MINUTE
    IN  IF stepped >= MinutesPerHour
        THEN [hour |-> W.hour + 1, minute |-> 0, rotation |-> popUnshift(W.rotation)]
        ELSE [hour |-> W.hour, minute |-> stepped, rotation |-> W.rotation]

\* World.updateWorldTime(); time is Date.now() as the minute of the day
updateWorldTime(W, time) ==
    IF USE_SERVER_TIME
    THEN LET getMinutes == time % MinutesPerHour
             getHours == time \div MinutesPerHour
         IN  [hour |-> getHours, minute |-> getMinutes,
              rotation |-> IF getMinutes # 30 /\ getMinutes # 0
                           THEN W.rotation
                           ELSE popUnshift(W.rotation)]
    ELSE LET stepped == W.minute + MINUTES_PER_MINUTE
             rolled == stepped >= MinutesPerHour
             advanced == IF rolled THEN W.hour + 1 ELSE W.hour
         IN  [hour |-> IF advanced >= HoursPerDay THEN 0 ELSE advanced,
              minute |-> IF rolled THEN 0 ELSE stepped,
              rotation |-> IF rolled THEN popUnshift(W.rotation) ELSE W.rotation]

CurWorld == [hour |-> hour, minute |-> minute, rotation |-> WEATHER_ROTATION]

\* The inventory while the world clock or the vehicle poll is modelled
InventoryAtRest ==
    /\ data = EmptyData
    /\ weapons = [a \in Actors |-> FALSE]
    /\ GROUND_ITEMS = <<>>
    /\ ITEM_RULES = [k \in RuleKinds |-> <<>>]
    /\ reqs = [r \in 1..MaxInFlight |-> NoReq]
    /\ streamed = {}
    /\ vcall = NoCall

\* The module is loaded and its first update (line 155) has run: simulated
\* time at any time of the day, or the time of the server's clock
InitWorld ==
    /\ USE_SERVER_TIME \in BOOLEAN
    /\ now \in 0..(MinutesPerDay - 1)
    /\ MINUTES_PER_MINUTE \in 1..MaxStep
    /\ hour \in 0..(HoursPerDay - 1)
    /\ minute \in 0..(MinutesPerHour - 1)
    /\ IF USE_SERVER_TIME
       THEN /\ MINUTES_PER_MINUTE = 1
            /\ hour = now \div MinutesPerHour
            /\ minute = now % MinutesPerHour
       ELSE now = 0
    /\ WEATHER_ROTATION = BootRotation
    /\ InventoryAtRest
    /\ VehicleAtRest

\* alt.setInterval(World.updateWorldTime, 60000) fires: once in each
\* minute of the server's clock
UpdateWorldTime ==
    LET W == updateWorldTime(CurWorld, now)
    IN  /\ USE_SERVER_TIME =>
              hour # now \div MinutesPerHour \/ minute # now % MinutesPerHour
        /\ hour' = W.hour
        /\ minute' = W.minute
        /\ WEATHER_ROTATION' = W.rotation
        /\ UNCHANGED <<USE_SERVER_TIME, MINUTES_PER_MINUTE, now, inventoryVars, vehicleVars>>

\* The server's clock passes to the next minute; the interval has fired in
\* the minute that ends
ClockMinute ==
    /\ USE_SERVER_TIME
    /\ hour = now \div MinutesPerHour
    /\ minute = now % MinutesPerHour
    /\ now' = (now + 1) % MinutesPerDay
    /\ UNCHANGED <<hour, minute, WEATHER_ROTATION, USE_SERVER_TIME, MINUTES_PER_MINUTE,
                   inventoryVars, vehicleVars>>

NextWorld ==
    \/ UpdateWorldTime
    \/ ClockMinute

SpecWorld == InitWorld /\ [][NextWorld]_vars

\* C27: the weather rotation is rotated by exactly one position (its last
\* element moved to the front, length and entries preserved) on each update
\* of the world time that advances the hour, and at no other time, in the
\* simulated-time mode and in the server-time mode.
C27_RotatesOncePerHour ==
    [][IF hour' # hour
       THEN WEATHER_ROTATION' = popUnshift(WEATHER_ROTATION)
       ELSE WEATHER_ROTATION' = WEATHER_ROTATION]_worldVars

\* C28: in the simulated-time mode, from an hour in 0..23 and a minute in
\* 0..59 with a positive step, World.hour stays in 0..23 and World.minute
\* in 0..59 after any number of updates, and the hour advances by one
\* (23 wrapping to 0) exactly on the updates where the minute reaches 60 or
\* more and is reset to 0.
C28_SimulatedClockInRange ==
    /\ [](~USE_SERVER_TIME => hour \in 0..23 /\ minute \in 0..59)
    /\ [][~USE_SERVER_TIME =>
            IF minute + MINUTES_PER_MINUTE >= 60
            THEN minute' = 0 /\ hour' = (hour + 1) % 24
            ELSE minute' = minute + MINUTES_PER_MINUTE /\ hour' = hour]_worldVars

\* Simulated time has passed midnight: one rotation after boot
C28_Witness ==
    /\ ~USE_SERVER_TIME
    /\ hour = 0
    /\ minute = 0
    /\ WEATHER_ROTATION = popUnshift(BootRotation)

---------------------------------------------------------------------------
(* VehicleController.setIntoVehicle, part_000 lines 78-105 *)

MaxAttempts == 100

CurPoll == [attempts |-> attempts, interval |-> interval, resolved |-> resolved,
            warped |-> warped]

\* A callback that looks at the vehicle before it looks at the counter
intervalCallbackValidFirst(P, valid) ==
    LET counted == [P EXCEPT !.attempts = @ + 1]
    IN  IF valid
        THEN [counted EXCEPT !.interval = "cleared",
                             !.resolved = Append(@, TRUE),
                             !.warped = TRUE]
        ELSE IF counted.attempts >= MaxAttempts
        THEN [counted EXCEPT !.interval = "cleared", !.resolved = Append(@, FALSE)]
        ELSE counted

\* lines 82-96: the callback of the interval; lines 99-104: with the promise
\* resolved true the function goes on to native.setPedIntoVehicle
intervalCallback(P, valid) ==
    LET counted == [P EXCEPT !.attempts = @ + 1]
    IN  IF counted.attempts >= MaxAttempts
        THEN [counted EXCEPT !.interval = "cleared", !.resolved = Append(@, FALSE)]
        ELSE IF ~valid THEN counted
        ELSE [counted EXCEPT !.interval = "cleared",
                             !.resolved = Append(@, TRUE),
                             !.warped = TRUE]

InitVehicle ==
    /\ attempts = 0
    /\ interval = "none"
    /\ resolved = <<>>
    /\ warped = FALSE
    /\ vehicleValid \in BOOLEAN
    /\ InventoryAtRest
    /\ WorldAtRest

\* setIntoVehicle(vehicle, seat) is called: lines 79-82
SetIntoVehicle ==
    /\ interval = "none"
    /\ interval' = "set"
    /\ attempts' = 0
    /\ UNCHANGED <<resolved, vehicleValid, warped, inventoryVars, worldVars>>

\* The interval of 200 ms fires
IntervalFires ==
    /\ interval = "set"
    /\ LET P == intervalCallback(CurPoll, vehicleValid)
       IN  /\ attempts' = P.attempts
           /\ interval' = P.interval
           /\ resolved' = P.resolved
           /\ warped' = P.warped
    /\ UNCHANGED <<vehicleValid, inventoryVars, worldVars>>

\* The vehicle streams in or out: vehicle.valid changes
VehicleStreams ==
    /\ vehicleValid' = ~vehicleValid
    /\ UNCHANGED <<attempts, interval, resolved, warped, inventoryVars, worldVars>>

NextVehicle ==
    \/ SetIntoVehicle
    \/ IntervalFires
    \/ VehicleStreams

SpecVehicle == InitVehicle /\ [][NextVehicle]_vars

\* alt.setInterval keeps firing while the interval is set
SpecVehicleFair == SpecVehicle /\ WF_vars(IntervalFires)

\* C29: the poll of setIntoVehicle always terminates: its promise is
\* resolved exactly once and its interval is cleared after at most 100
\* ticks; it resolves true, and the player is then warped into the
\* vehicle, only if the vehicle was seen valid on a tick before the 100th,
\* and resolves false with no warp otherwise.
C29_PollTerminates ==
    /\ [](/\ attempts <= 100
          /\ Len(resolved) <= 1
          /\ interval = "set" => attempts < 100 /\ resolved = <<>>
          /\ interval = "cleared" => Len(resolved) = 1
          /\ resolved = <<TRUE>> => warped /\ attempts < 100
          /\ resolved = <<FALSE>> => ~warped /\ attempts = 100
          /\ warped => resolved = <<TRUE>>)
    /\ [][resolved' # resolved =>
            /\ interval' = "cleared"
            /\ (resolved' = <<TRUE>>) <=> (vehicleValid /\ attempts' < 100)]_vehicleVars
    /\ (interval = "set") ~> (interval = "cleared" /\ Len(resolved) = 1)

\* The vehicle was valid on the 100th tick only: the poll gave up
C29_Witness ==
    /\ resolved = <<FALSE>>
    /\ attempts = 100
    /\ interval = "cleared"
    /\ vehicleValid
    /\ ~warped

====
